---- MODULE Spec2Model ----
(***************************************************************************)
(* Model of bin/find_candidate_chimeric_seqs_from_mir_alignments.py:       *)
(* reconstruction of the reference fragment of a bowtie alignment row,     *)
(* the per-read alignment index, the expansion to every read with the same *)
(* sequence, the extraction of the flanks and the writes of main().        *)
(*                                                                         *)
(* Python strings that the program indexes, splits or searches are         *)
(* sequences of one-character strings.  A dict is a function, an           *)
(* OrderedDict a sequence of [key, val] records.  The mismatch column of a *)
(* row is held as the list of its descriptors [pos, ref, query].           *)
(***************************************************************************)
EXTENDS Integers, Sequences, FiniteSets, TLC

\* ------------------------------------------------------------------ bounds
MaxLines == 2
MaxRecs == 3
MaxMut == 2

\* default of --min_seq_len
DefaultMinSeqLen == 18

\* ----------------------------------------------------------- python helpers
Rep(c, n) == [i \in 1..n |-> c]

BoundedSeq(S, n) == UNION {[1..k -> S] : k \in 0..n}

EmptyDict == [x \in {} |-> 0]

\* d[k] = v
DictSet(d, k, v) == [x \in (DOMAIN d) \cup {k} |-> IF x = k THEN v ELSE d[x]]

\* s.count(ch)
PyCount(s, ch) == Cardinality({i \in 1..Len(s) : s[i] = ch})

\* s.split(ch)[0]
PySplitFirst(s, ch) ==
    IF \E i \in 1..Len(s) : s[i] = ch
    THEN LET first == CHOOSE i \in 1..Len(s) :
                          s[i] = ch /\ \A j \in 1..(i - 1) : s[j] # ch
         IN  SubSeq(s, 1, first - 1)
    ELSE s

\* s.find(sub): 0-based index of the first occurrence, -1 when absent
PyFind(s, sub) ==
    LET hits == {i \in 0..(Len(s) - Len(sub)) : SubSeq(s, i + 1, i + Len(sub)) = sub}
    IN  IF hits = {} THEN -1
        ELSE CHOOSE i \in hits : \A j \in hits : i <= j

\* len(flank) >= min_seq_len.  min_seq_len is the int default or the str that
\* argparse hands over for a command-line value; CPython 2 orders every int
\* before every str, so an int is never >= a str.
PyGreaterEqual(n, m) == IF m.type = "int" THEN n >= m.value ELSE FALSE

\* ------------------------------------------- get_reference_seq_from_query
MappedPosForward(strand, rseq, pos) == pos

\* lines 50-53
MappedPos(strand, rseq, pos) ==
    IF strand = "-" THEN (Len(rseq) - 1) - pos ELSE pos

QueryBaseNeverChecked(qseq, pos0base, query) == TRUE

\* line 57: assert qseq[pos0base] == query
QueryBaseMatches(qseq, pos0base, query) == qseq[pos0base + 1] = query

AssertionErrorRaised(st, msg) == [st EXCEPT !.raised = TRUE]

\* lines 58-59: the AssertionError is caught and the row is printed
AssertionErrorCaught(st, msg) == [st EXCEPT !.printed = Append(@, msg)]

\* body of the loop over the mismatch descriptors, lines 48-59
ApplyMutation(strand, qseq, st, mutation) ==
    LET pos0base == MappedPos(strand, st.rseq, mutation.pos)
        rseq == SubSeq(st.rseq, 1, pos0base) \o <<mutation.ref>>
                    \o SubSeq(st.rseq, pos0base + 2, Len(st.rseq))
        overwritten == [st EXCEPT !.rseq = rseq]
    IN  IF QueryBaseMatches(qseq, pos0base, mutation.query)
        THEN overwritten
        ELSE AssertionErrorCaught(overwritten,
                 <<qseq, strand, pos0base, mutation.ref, mutation.query>>)

RECURSIVE ApplyMutations(_, _, _, _, _)
ApplyMutations(strand, qseq, st, mutations, i) ==
    IF i > Len(mutations) \/ st.raised THEN st
    ELSE ApplyMutations(strand, qseq,
                        ApplyMutation(strand, qseq, st, mutations[i]),
                        mutations, i + 1)

\* line 45
ReconStart(qseq) == [rseq |-> qseq, printed |-> <<>>, raised |-> FALSE]

\* lines 42-61; the unpacking of line 42 raises unless the row has 8 columns
GetReferenceSeqFromQuery(row) ==
    IF Len(row) # 8
    THEN [raised |-> TRUE, ref_name |-> <<>>, rseq |-> <<>>, strand |-> "",
          mir |-> "", printed |-> <<>>]
    ELSE LET st == ApplyMutations(row[2], row[5], ReconStart(row[5]), row[8], 1)
         IN  [raised |-> st.raised, ref_name |-> row[3], rseq |-> st.rseq,
              strand |-> row[2], mir |-> row[1], printed |-> st.printed]

\* ----------------------- get_rnames_and_rseq_fragments_from_bowtie_output
KeepFirstFragment(rnames, rname, d) ==
    IF rname \in DOMAIN rnames THEN rnames ELSE DictSet(rnames, rname, d)

\* line 91: rnames[rname] = {...}
StoreFragment(rnames, rname, d) == DictSet(rnames, rname, d)

\* line 92: metrics[rname] += 1 on a defaultdict(int)
CountAlignment(metrics, rname) ==
    DictSet(metrics, rname, IF rname \in DOMAIN metrics THEN metrics[rname] + 1 ELSE 1)

\* lines 84-92, from line i of the file on
RECURSIVE IndexLines(_, _, _)
IndexLines(file, i, acc) ==
    IF i > Len(file) THEN acc
    ELSE LET r == GetReferenceSeqFromQuery(file[i])
         IN  IF r.raised
             THEN [acc EXCEPT !.fatal = "column_count"]
             ELSE IF PyCount(r.ref_name, "#") # 1
             THEN [acc EXCEPT !.fatal = "delimiter"]
             ELSE LET rname == PySplitFirst(r.ref_name, "#")
                  IN  IndexLines(file, i + 1,
                          [rnames  |-> StoreFragment(acc.rnames, rname,
                                           [fragment |-> r.rseq, strand |-> r.strand,
                                            mir |-> r.mir]),
                           metrics |-> CountAlignment(acc.metrics, rname),
                           fatal   |-> "none"])

\* ------------------------------------------------------ get_name2seq_dict
\* lines 129-138, from record i of the fasta file on
RECURSIVE ResolveRecords(_, _, _, _)
ResolveRecords(fa, rn, i, acc) ==
    IF i > Len(fa) THEN acc
    ELSE LET record == fa[i]
         IN  IF record.id \in DOMAIN rn
             THEN ResolveRecords(fa, rn, i + 1,
                      [name2seq |-> DictSet(acc.name2seq, record.id,
                                       [read_fragment |-> rn[record.id].fragment,
                                        read_sequence |-> record.seq,
                                        strand        |-> rn[record.id].strand,
                                        mir           |-> rn[record.id].mir]),
                       seq2name |-> DictSet(acc.seq2name, record.seq, record.id)])
             ELSE ResolveRecords(fa, rn, i + 1, acc)

\* ------------------------------- add_all_sequences_to_name2seq_dictionary
ResolvedById(record, n2s, s2n) == record.id \in DOMAIN n2s /\ record.seq \in DOMAIN s2n

\* line 178: str(record.seq) in all_seqs
SeqIsResolved(record, n2s, s2n) == record.seq \in DOMAIN s2n

OrderedAppend(od, k, v) == Append(od, [key |-> k, val |-> v])

\* line 186: all_name2seq_dict[str(record.id)] = d on an OrderedDict: a key
\* already present keeps its place
OrderedSet(od, k, v) ==
    IF \E j \in 1..Len(od) : od[j].key = k
    THEN [j \in 1..Len(od) |-> IF od[j].key = k THEN [key |-> k, val |-> v] ELSE od[j]]
    ELSE Append(od, [key |-> k, val |-> v])

\* lines 177-186, from record i of the fasta file on
RECURSIVE ExpandRecords(_, _, _, _, _)
ExpandRecords(fa, n2s, s2n, i, acc) ==
    IF i > Len(fa) THEN acc
    ELSE LET record == fa[i]
         IN  IF SeqIsResolved(record, n2s, s2n)
             THEN LET src == n2s[s2n[record.seq]]
                  IN  IF record.seq # src.read_sequence
                      THEN [acc EXCEPT !.fatal = "consistency"]
                      ELSE ExpandRecords(fa, n2s, s2n, i + 1,
                               [all   |-> OrderedSet(acc.all, record.id,
                                             [read_fragment |-> src.read_fragment,
                                              read_sequence |-> record.seq,
                                              strand        |-> src.strand,
                                              mir           |-> src.mir]),
                                fatal |-> "none"])
             ELSE ExpandRecords(fa, n2s, s2n, i + 1, acc)

\* ------------------------------- write_candidate_chimeric_targets_to_file
\* lines 236 and 241: ">{}_{}_downstream\n{}\n".format(rname, strand, seq)
FastaRecord(rname, strand, kind, seq) ==
    <<">">> \o rname \o <<"_", strand, "_", kind, "\n">> \o seq \o <<"\n">>

\* lines 224-225
LoFlank(fullseq, rseq) == SubSeq(fullseq, 1, PyFind(fullseq, rseq))
HiFlank(fullseq, rseq) ==
    SubSeq(fullseq, PyFind(fullseq, rseq) + Len(rseq) + 1, Len(fullseq))

DownstreamAlwaysHi(strand, lo, hi) == hi

\* lines 226-231
DownstreamSeq(strand, lo, hi) == IF strand = "-" THEN lo ELSE hi
UpstreamSeq(strand, lo, hi) == IF strand = "-" THEN hi ELSE lo

\* lines 213-250 for one entry of name2seq
ExtractEntry(rname, d, min_seq_len, acc) ==
    LET rseq == d.read_fragment
        strand == d.strand
        fullseq == d.read_sequence
    IN  IF PyFind(fullseq, rseq) = -1
        THEN [acc EXCEPT !.outcome = "exit"]
        ELSE IF strand \notin {"+", "-"}
        THEN [acc EXCEPT !.outcome = "return1"]
        ELSE LET lo == LoFlank(fullseq, rseq)
                 hi == HiFlank(fullseq, rseq)
                 downstream_seq == DownstreamSeq(strand, lo, hi)
                 upstream_seq == UpstreamSeq(strand, lo, hi)
                 down_ok == PyGreaterEqual(Len(downstream_seq), min_seq_len)
                 up_ok == PyGreaterEqual(Len(upstream_seq), min_seq_len)
                 l1 == IF down_ok
                       THEN Append(acc.l, FastaRecord(rname, strand, "downstream",
                                                      downstream_seq))
                       ELSE acc.l
                 l2 == IF up_ok
                       THEN Append(l1, FastaRecord(rname, strand, "upstream",
                                                   upstream_seq))
                       ELSE l1
             IN  [l       |-> l2,
                  metrics |-> DictSet(acc.metrics, rname,
                                  [upstream_pass   |-> IF up_ok THEN "yes" ELSE "no",
                                   downstream_pass |-> IF down_ok THEN "yes" ELSE "no",
                                   upstream        |-> upstream_seq,
                                   mir             |-> rseq,
                                   mirname         |-> d.mir,
                                   downstream      |-> downstream_seq,
                                   fullread        |-> fullseq]),
                  outcome |-> "ok"]

\* the loop of line 211, from entry i on; sys.exit and return leave it
RECURSIVE ExtractEntries(_, _, _, _)
ExtractEntries(name2seq, min_seq_len, i, acc) ==
    IF i > Len(name2seq) THEN acc
    ELSE LET step == ExtractEntry(name2seq[i].key, name2seq[i].val, min_seq_len, acc)
         IN  IF step.outcome # "ok" THEN step
             ELSE ExtractEntries(name2seq, min_seq_len, i + 1, step)

\* lines 209-258.  kind: "tuple" (l, metrics), "int" (return 1), "exit"
\* (sys.exit(1)), "keyerror" (line 253 selects the columns of a frame built
\* from no row at all)
WriteCandidateChimericTargets(name2seq, min_seq_len) ==
    LET acc == ExtractEntries(name2seq, min_seq_len, 1,
                              [l |-> <<>>, metrics |-> EmptyDict, outcome |-> "ok"])
    IN  IF acc.outcome = "exit"
        THEN [kind |-> "exit", l |-> <<>>, metrics |-> EmptyDict]
        ELSE IF acc.outcome = "return1"
        THEN [kind |-> "int", l |-> <<>>, metrics |-> EmptyDict]
        ELSE IF DOMAIN acc.metrics = {}
        THEN [kind |-> "keyerror", l |-> <<>>, metrics |-> EmptyDict]
        ELSE [kind |-> "tuple", l |-> acc.l, metrics |-> acc.metrics]

\* ------------------------------------------------------------------ state
VARIABLES
    bowtie_align,       \* --bowtie_align: the rows of the alignment file
    fa_file,            \* --fa_file: the records [id, seq] of the fasta file
    min_seq_len,        \* args.min_seq_len
    pc,                 \* position of main()
    rnames,             \* main: rnames
    metrics1,           \* main: metrics1 (count per read name)
    name2seq_dict,      \* main: name2seq_dict
    seq2name_dict,      \* main: seq2name_dict
    all_name2seq_dict,  \* main: all_name2seq_dict
    wc_ret,             \* what write_candidate_chimeric_targets_to_file gave
    lines,              \* main: lines
    metrics2,           \* main: metrics2
    out_file,           \* the candidate fasta file
    metrics_file,       \* the metrics file
    fatal,              \* the condition that ended the run, "none" otherwise
    q_strand,           \* get_reference_seq_from_query: strand
    qseq,               \*   qseq
    mutations,          \*   mutations
    mut_i,              \*   number of descriptors the loop has applied
    recon,              \*   [rseq, printed, raised]: rseq, the lines printed,
                        \*   whether an exception left the function
    recon_pc            \*   position in get_reference_seq_from_query

main_vars == <<bowtie_align, fa_file, min_seq_len, pc, rnames, metrics1,
               name2seq_dict, seq2name_dict, all_name2seq_dict, wc_ret, lines,
               metrics2, out_file, metrics_file, fatal>>
recon_vars == <<q_strand, qseq, mutations, mut_i, recon, recon_pc>>
vars == <<main_vars, recon_vars>>

\* ----------------------------------------------------------------- inputs
Fragment == <<"C", "G">>

\* reads: the fragment between two 18-base flanks; the fragment twice, the
\* first time between a 17-base flank and a longer one
ReadBothLong == Rep("A", DefaultMinSeqLen) \o Fragment \o Rep("T", DefaultMinSeqLen)
ReadTwoHits == Rep("A", DefaultMinSeqLen - 1) \o Fragment \o Rep("T", DefaultMinSeqLen)
                   \o Fragment

ReadR == <<"r">>
ReadS == <<"s">>
ReadU == <<"u">>

FastaRecords ==
    { [id |-> ReadR, seq |-> ReadBothLong],
      [id |-> ReadU, seq |-> ReadBothLong],
      [id |-> ReadS, seq |-> ReadBothLong],
      [id |-> ReadR, seq |-> ReadTwoHits] }

Row(mir, strand, ref_name, aligned, muts) ==
    <<mir, strand, ref_name, "0", aligned, "II", "0", muts>>

BowtieRows ==
    { Row("m1", "+", <<"r", "#", "1">>, <<"C", "G">>, <<>>),
      Row("m2", "-", <<"r", "#", "2">>, <<"C", "T">>,
          <<[pos |-> 0, ref |-> "G", query |-> "T"]>>),
      Row("m1", "+", <<"s", "#", "1">>, <<"C", "G">>,
          <<[pos |-> 0, ref |-> "T", query |-> "C"]>>),
      Row("m2", "*", <<"s", "#", "1">>, <<"C", "G">>, <<>>),
      Row("m1", "+", <<"r">>, <<"C", "G">>, <<>>),
      Row("m1", "+", <<"r", "#", "1", "#">>, <<"C", "G">>, <<>>),
      <<"m1", "+", <<"r", "#", "1">>, "0", <<"C", "G">>, "II", "0">> }

\* line 282 (no option given) and line 290 (an option given: argparse keeps
\* the text, no type is declared for it)
CliMinSeqLens == {0}
MinSeqLenArgs ==
    {[type |-> "int", value |-> DefaultMinSeqLen]}
        \cup {[type |-> "str", value |-> n] : n \in CliMinSeqLens}

MutationBases == {"A", "C", "G", "T"}
AlignedSeqs == {<<"A", "C", "G">>, <<"T", "C">>}
Descriptors(aligned) ==
    [pos : 0..(Len(aligned) - 1), ref : MutationBases, query : MutationBases]

NoReturn == [kind |-> "none", l |-> <<>>, metrics |-> EmptyDict]
Unopened == [opened |-> FALSE, records |-> {}]
Unwritten == [written |-> FALSE, rows |-> EmptyDict]

MainIdle ==
    /\ bowtie_align = <<>>
    /\ fa_file = <<>>
    /\ min_seq_len = [type |-> "int", value |-> DefaultMinSeqLen]
    /\ pc = "idle"
    /\ rnames = EmptyDict
    /\ metrics1 = EmptyDict
    /\ name2seq_dict = EmptyDict
    /\ seq2name_dict = EmptyDict
    /\ all_name2seq_dict = <<>>
    /\ wc_ret = NoReturn
    /\ lines = <<>>
    /\ metrics2 = EmptyDict
    /\ out_file = Unopened
    /\ metrics_file = Unwritten
    /\ fatal = "none"

ReconIdle ==
    /\ q_strand = "+"
    /\ qseq = <<>>
    /\ mutations = <<>>
    /\ mut_i = 0
    /\ recon = ReconStart(<<>>)
    /\ recon_pc = "idle"

\* main() entered with its arguments parsed, lines 286-291
Init ==
    /\ bowtie_align \in BoundedSeq(BowtieRows, MaxLines)
    /\ fa_file \in BoundedSeq(FastaRecords, MaxRecs)
    /\ min_seq_len \in MinSeqLenArgs
    /\ pc = "start"
    /\ rnames = EmptyDict
    /\ metrics1 = EmptyDict
    /\ name2seq_dict = EmptyDict
    /\ seq2name_dict = EmptyDict
    /\ all_name2seq_dict = <<>>
    /\ wc_ret = NoReturn
    /\ lines = <<>>
    /\ metrics2 = EmptyDict
    /\ out_file = Unopened
    /\ metrics_file = Unwritten
    /\ fatal = "none"
    /\ ReconIdle

\* get_reference_seq_from_query entered with one row, line 45
InitRecon ==
    /\ q_strand \in {"+", "-"}
    /\ qseq \in AlignedSeqs
    /\ mutations \in BoundedSeq(Descriptors(qseq), MaxMut)
    /\ mut_i = 0
    /\ recon = ReconStart(qseq)
    /\ recon_pc = "loop"
    /\ MainIdle

\* ---------------------------------------------------------------- actions
\* an uncaught exception or sys.exit(1) ends main()
Abort(cond) ==
    /\ pc' = "aborted"
    /\ fatal' = cond

\* line 294
BuildAlignmentIndex ==
    /\ pc = "start"
    /\ LET r == IndexLines(bowtie_align, 1,
                           [rnames |-> EmptyDict, metrics |-> EmptyDict, fatal |-> "none"])
       IN  IF r.fatal # "none"
           THEN /\ Abort(r.fatal)
                /\ UNCHANGED <<rnames, metrics1>>
           ELSE /\ rnames' = r.rnames
                /\ metrics1' = r.metrics
                /\ pc' = "indexed"
                /\ fatal' = "none"
    /\ UNCHANGED <<bowtie_align, fa_file, min_seq_len, name2seq_dict, seq2name_dict,
                   all_name2seq_dict, wc_ret, lines, metrics2, out_file, metrics_file>>
    /\ UNCHANGED recon_vars

\* line 295
GetName2SeqDict ==
    /\ pc = "indexed"
    /\ LET r == ResolveRecords(fa_file, rnames, 1,
                               [name2seq |-> EmptyDict, seq2name |-> EmptyDict])
       IN  /\ name2seq_dict' = r.name2seq
           /\ seq2name_dict' = r.seq2name
    /\ pc' = "resolved"
    /\ UNCHANGED <<bowtie_align, fa_file, min_seq_len, rnames, metrics1,
                   all_name2seq_dict, wc_ret, lines, metrics2, out_file, metrics_file,
                   fatal>>
    /\ UNCHANGED recon_vars

\* lines 297-301
AddAllSequences ==
    /\ pc = "resolved"
    /\ LET r == ExpandRecords(fa_file, name2seq_dict, seq2name_dict, 1,
                              [all |-> <<>>, fatal |-> "none"])
       IN  IF r.fatal # "none"
           THEN /\ Abort(r.fatal)
                /\ UNCHANGED all_name2seq_dict
           ELSE /\ all_name2seq_dict' = r.all
                /\ pc' = "expanded"
                /\ fatal' = "none"
    /\ UNCHANGED <<bowtie_align, fa_file, min_seq_len, rnames, metrics1, name2seq_dict,
                   seq2name_dict, wc_ret, lines, metrics2, out_file, metrics_file>>
    /\ UNCHANGED recon_vars

\* the call of lines 303-306
WriteCandidates ==
    /\ pc = "expanded"
    /\ LET r == WriteCandidateChimericTargets(all_name2seq_dict, min_seq_len)
       IN  /\ wc_ret' = r
           /\ IF r.kind = "exit" THEN Abort("fragment_not_found")
              ELSE IF r.kind = "keyerror" THEN Abort("no_metrics_columns")
              ELSE /\ pc' = "returned"
                   /\ fatal' = "none"
    /\ UNCHANGED <<bowtie_align, fa_file, min_seq_len, rnames, metrics1, name2seq_dict,
                   seq2name_dict, all_name2seq_dict, lines, metrics2, out_file,
                   metrics_file>>
    /\ UNCHANGED recon_vars

UnpackAnything(ret) == TRUE

\* line 303: lines, metrics2 = <returned value>; an int does not unpack
Unpacks(ret) == ret.kind = "tuple"

\* the assignment of line 303
UnpackReturn ==
    /\ pc = "returned"
    /\ IF Unpacks(wc_ret)
       THEN /\ lines' = wc_ret.l
            /\ metrics2' = wc_ret.metrics
            /\ pc' = "unpacked"
            /\ fatal' = "none"
       ELSE /\ Abort("unrecognized_strand")
            /\ UNCHANGED <<lines, metrics2>>
    /\ UNCHANGED <<bowtie_align, fa_file, min_seq_len, rnames, metrics1, name2seq_dict,
                   seq2name_dict, all_name2seq_dict, wc_ret, out_file, metrics_file>>
    /\ UNCHANGED recon_vars

\* set(lines)
LineSet == {lines[i] : i \in 1..Len(lines)}

\* line 307
CheckUnique ==
    /\ pc = "unpacked"
    /\ IF Len(lines) = Cardinality(LineSet)
       THEN /\ pc' = "unique"
            /\ fatal' = "none"
       ELSE Abort("duplicate_lines")
    /\ UNCHANGED <<bowtie_align, fa_file, min_seq_len, rnames, metrics1, name2seq_dict,
                   seq2name_dict, all_name2seq_dict, wc_ret, lines, metrics2, out_file,
                   metrics_file>>
    /\ UNCHANGED recon_vars

\* lines 309-311.  The order in which set(lines) is walked is fixed by the
\* interpreter's string hashing, not by this program: the file is held as the
\* set of the records written to it.
WriteOutFile ==
    /\ pc = "unique"
    /\ out_file' = [opened |-> TRUE, records |-> LineSet]
    /\ pc' = "out_written"
    /\ UNCHANGED <<bowtie_align, fa_file, min_seq_len, rnames, metrics1, name2seq_dict,
                   seq2name_dict, all_name2seq_dict, wc_ret, lines, metrics2,
                   metrics_file, fatal>>
    /\ UNCHANGED recon_vars

\* line 313: outer join of metrics1 and metrics2 on the index
MergedMetrics ==
    [rname \in (DOMAIN metrics1) \cup (DOMAIN metrics2) |->
        [count |-> IF rname \in DOMAIN metrics1 THEN <<metrics1[rname]>> ELSE <<>>,
         row   |-> IF rname \in DOMAIN metrics2 THEN <<metrics2[rname]>> ELSE <<>>]]

\* lines 313-314
WriteMetricsFile ==
    /\ pc = "out_written"
    /\ metrics_file' = [written |-> TRUE, rows |-> MergedMetrics]
    /\ pc' = "done"
    /\ UNCHANGED <<bowtie_align, fa_file, min_seq_len, rnames, metrics1, name2seq_dict,
                   seq2name_dict, all_name2seq_dict, wc_ret, lines, metrics2, out_file,
                   fatal>>
    /\ UNCHANGED recon_vars

\* one pass of the loop of line 47
ReconStep ==
    /\ recon_pc = "loop"
    /\ ~recon.raised
    /\ mut_i < Len(mutations)
    /\ recon' = ApplyMutation(q_strand, qseq, recon, mutations[mut_i + 1])
    /\ mut_i' = mut_i + 1
    /\ UNCHANGED <<q_strand, qseq, mutations, recon_pc>>
    /\ UNCHANGED main_vars

\* line 61
ReconReturn ==
    /\ recon_pc = "loop"
    /\ ~recon.raised
    /\ mut_i = Len(mutations)
    /\ recon_pc' = "returned"
    /\ UNCHANGED <<q_strand, qseq, mutations, mut_i, recon>>
    /\ UNCHANGED main_vars

Next ==
    \/ BuildAlignmentIndex
    \/ GetName2SeqDict
    \/ AddAllSequences
    \/ WriteCandidates
    \/ UnpackReturn
    \/ CheckUnique
    \/ WriteOutFile
    \/ WriteMetricsFile

Spec == Init /\ [][Next]_vars

NextRecon == ReconStep \/ ReconReturn

SpecRecon == InitRecon /\ [][NextRecon]_vars

\* ================================================================= claims
\* the position a descriptor is said to name: 'position' on the '+' strand,
\* (len(fragment) - 1) - position on the '-' strand
StatedPos(k) ==
    IF q_strand = "-" THEN (Len(qseq) - 1) - mutations[k].pos ELSE mutations[k].pos

DescriptorsAt(p) == {k \in 1..Len(mutations) : StatedPos(k) = p}

LastDescriptorAt(p) == CHOOSE k \in DescriptorsAt(p) : \A j \in DescriptorsAt(p) : j <= k

\* C1 as stated: the returned fragment equals aligned_sequence except at the
\* mapped position of each mismatch descriptor, where it holds that
\* descriptor's reference_base.
C1_AsStated ==
    recon_pc = "returned" =>
        /\ Len(recon.rseq) = Len(qseq)
        /\ \A p \in 0..(Len(qseq) - 1) :
              IF DescriptorsAt(p) = {}
              THEN recon.rseq[p + 1] = qseq[p + 1]
              ELSE \A k \in DescriptorsAt(p) : recon.rseq[p + 1] = mutations[k].ref

\* C1 amended: the returned fragment equals aligned_sequence except at the
\* mapped positions of the mismatch descriptors, where it holds the
\* reference_base of the last descriptor mapped to that position; with an
\* empty mismatch list it is aligned_sequence.
C1_ReferenceBases ==
    recon_pc = "returned" =>
        /\ Len(recon.rseq) = Len(qseq)
        /\ \A p \in 0..(Len(qseq) - 1) :
              IF DescriptorsAt(p) = {}
              THEN recon.rseq[p + 1] = qseq[p + 1]
              ELSE recon.rseq[p + 1] = mutations[LastDescriptorAt(p)].ref
        /\ (mutations = <<>> => recon.rseq = qseq)

\* a '-' strand row whose descriptor at position 0 rewrote the last base
C1_Witness ==
    /\ recon_pc = "returned"
    /\ q_strand = "-"
    /\ Len(mutations) = 1
    /\ mutations[1].pos = 0
    /\ recon.rseq[Len(qseq)] = mutations[1].ref
    /\ recon.rseq # qseq

\* the descriptor the loop has just applied, and its stated position
Applied == mutations[mut_i']
AppliedPos == StatedPos(mut_i')
Warned == Len(recon'.printed) = Len(recon.printed) + 1
Silent == recon'.printed = recon.printed

\* C8 as stated: a descriptor is reported exactly when its aligned_base
\* differs from the base the fragment holds at the mapped position before the
\* overwrite; the reference_base is written and the loop goes on either way.
C8_AsStated ==
    [][mut_i' = mut_i + 1 =>
          /\ recon'.rseq[AppliedPos + 1] = Applied.ref
          /\ ~recon'.raised
          /\ (recon.rseq[AppliedPos + 1] # Applied.query => Warned)
          /\ (recon.rseq[AppliedPos + 1] = Applied.query => Silent)]_vars

\* C8 amended: a descriptor is reported exactly when its aligned_base differs
\* from the base of the original aligned_sequence at the mapped position; it
\* never ends the reconstruction, its reference_base is written at the mapped
\* position, the remaining descriptors are applied in order and the function
\* returns with all of them applied.
C8_ReportedOnly ==
    /\ [][mut_i' = mut_i + 1 =>
             /\ recon'.rseq[AppliedPos + 1] = Applied.ref
             /\ ~recon'.raised
             /\ (qseq[AppliedPos + 1] # Applied.query => Warned)
             /\ (qseq[AppliedPos + 1] = Applied.query => Silent)]_vars
    /\ [](recon_pc = "loop" /\ mut_i < Len(mutations) => ENABLED ReconStep)
    /\ [](recon_pc = "loop" /\ mut_i = Len(mutations) => ENABLED ReconReturn)
    /\ [](recon_pc = "returned" => mut_i = Len(mutations) /\ ~recon.raised)

\* the first of two descriptors was reported, the second was applied after it
\* and the function returned
C8_Witness ==
    /\ recon_pc = "returned"
    /\ Len(mutations) = 2
    /\ qseq[StatedPos(1) + 1] # mutations[1].query
    /\ Len(recon.printed) >= 1
    /\ StatedPos(1) # StatedPos(2)
    /\ recon.rseq[StatedPos(1) + 1] = mutations[1].ref
    /\ recon.rseq[StatedPos(2) + 1] = mutations[2].ref

\* ------------------------------------------------------- the alignment index
WellFormedRow(row) == Len(row) = 8 /\ Cardinality({j \in 1..Len(row[3]) : row[3][j] = "#"}) = 1

\* the identifier of a well-formed row: what stands before its '#'
StrippedId(row) ==
    CHOOSE id \in {SubSeq(row[3], 1, n) : n \in 0..Len(row[3])} :
        /\ Len(id) < Len(row[3])
        /\ row[3][Len(id) + 1] = "#"

RowsOf(id) == {i \in 1..Len(bowtie_align) : StrippedId(bowtie_align[i]) = id}

LastRowOf(id) == CHOOSE i \in RowsOf(id) : \A j \in RowsOf(id) : j <= i

Indexed == pc \notin {"idle", "start"} /\ fatal \notin {"column_count", "delimiter"}

\* C4: after the index is built from well-formed rows, resolved and counts
\* have the same keys, the stripped identifiers of the rows; resolved[id] is
\* the fragment, strand and source label of the last row of id, counts[id] is
\* the number of rows of id.
C4_LastWriteWins ==
    Indexed =>
        /\ \A i \in 1..Len(bowtie_align) : WellFormedRow(bowtie_align[i])
        /\ DOMAIN rnames = DOMAIN metrics1
        /\ DOMAIN rnames = {StrippedId(bowtie_align[i]) : i \in 1..Len(bowtie_align)}
        /\ \A id \in DOMAIN rnames :
              LET row == bowtie_align[LastRowOf(id)]
              IN  /\ metrics1[id] = Cardinality(RowsOf(id))
                  /\ rnames[id].fragment = GetReferenceSeqFromQuery(row).rseq
                  /\ rnames[id].strand = row[2]
                  /\ rnames[id].mir = row[1]

\* two rows of one read that differ in fragment-bearing payload: the second
\* one is kept, the count is 2
C4_Witness ==
    /\ pc = "indexed"
    /\ Len(bowtie_align) = 2
    /\ ReadR \in DOMAIN rnames
    /\ metrics1[ReadR] = 2
    /\ bowtie_align[1][1] # bowtie_align[2][1]
    /\ rnames[ReadR].mir = bowtie_align[2][1]
    /\ rnames[ReadR].strand = "-"

\* ------------------------------------------------------------ the expansion
Expanded ==
    /\ pc \notin {"idle", "start", "indexed", "resolved"}
    /\ fatal \notin {"column_count", "delimiter", "consistency"}

Entries == {all_name2seq_dict[e].val : e \in 1..Len(all_name2seq_dict)}
EntryKeys == {all_name2seq_dict[e].key : e \in 1..Len(all_name2seq_dict)}

\* the identifiers resolved by alignment that the fasta file gives sequence s
ResolvedWithSeq(s) ==
    {fa_file[j].id : j \in {k \in 1..Len(fa_file) :
                               fa_file[k].id \in DOMAIN rnames /\ fa_file[k].seq = s}}

Payload(d) == <<d.read_fragment, d.strand, d.mir>>

\* C3: after the expansion every fasta record whose sequence is that of a
\* resolved identifier of the fasta file has an entry under its own
\* identifier; entries with the same full sequence carry the same fragment,
\* strand and source label, which are those of a resolved identifier with
\* that sequence.
C3_SharedPayload ==
    Expanded =>
        /\ \A k \in 1..Len(fa_file) :
              ResolvedWithSeq(fa_file[k].seq) # {} => fa_file[k].id \in EntryKeys
        /\ \A d1, d2 \in Entries :
              d1.read_sequence = d2.read_sequence => Payload(d1) = Payload(d2)
        /\ \A d \in Entries :
              \E id \in ResolvedWithSeq(d.read_sequence) :
                  Payload(d) = <<rnames[id].fragment, rnames[id].strand, rnames[id].mir>>

\* read u has no alignment and the sequence of the aligned read r: it has the
\* entry of r
C3_Witness ==
    /\ pc = "expanded"
    /\ ReadU \notin DOMAIN rnames
    /\ ReadR \in DOMAIN rnames
    /\ \E e1, e2 \in 1..Len(all_name2seq_dict) :
          /\ all_name2seq_dict[e1].key = ReadU
          /\ all_name2seq_dict[e2].key = ReadR
          /\ all_name2seq_dict[e1].val = all_name2seq_dict[e2].val
          /\ Payload(all_name2seq_dict[e1].val)
                 = <<rnames[ReadR].fragment, rnames[ReadR].strand, rnames[ReadR].mir>>

\* ---------------------------------------------------------------- the flanks
Extracted == wc_ret.kind = "tuple"

EntryOf(rname) ==
    all_name2seq_dict[CHOOSE e \in 1..Len(all_name2seq_dict) :
                          all_name2seq_dict[e].key = rname].val

Occurs(sub, s, i) == i + Len(sub) <= Len(s) /\ SubSeq(s, i + 1, i + Len(sub)) = sub

\* C2: for every entry processed without a fatal error the fragment occurs in
\* the full sequence, upstream + fragment + downstream is the full sequence on
\* '+', downstream + fragment + upstream on '-', and the split is at the first
\* occurrence of the fragment.
C2_FlanksReassemble ==
    Extracted =>
        /\ DOMAIN wc_ret.metrics = EntryKeys
        /\ \A rname \in DOMAIN wc_ret.metrics :
              LET row == wc_ret.metrics[rname]
                  d == EntryOf(rname)
                  first == IF d.strand = "+" THEN row.upstream ELSE row.downstream
              IN  /\ row.fullread = d.read_sequence
                  /\ row.mir = d.read_fragment
                  /\ \E i \in 0..Len(row.fullread) : Occurs(row.mir, row.fullread, i)
                  /\ d.strand = "+" =>
                         row.upstream \o row.mir \o row.downstream = row.fullread
                  /\ d.strand = "-" =>
                         row.downstream \o row.mir \o row.upstream = row.fullread
                  /\ d.strand \in {"+", "-"}
                  /\ \A i \in 0..(Len(first) - 1) : ~Occurs(row.mir, row.fullread, i)

\* a '-' strand entry on the read that holds the fragment twice
C2_Witness ==
    /\ Extracted
    /\ \E rname \in DOMAIN wc_ret.metrics :
          /\ EntryOf(rname).strand = "-"
          /\ wc_ret.metrics[rname].fullread = ReadTwoHits
          /\ Len(wc_ret.metrics[rname].downstream) = DefaultMinSeqLen - 1
          /\ Len(wc_ret.metrics[rname].upstream) > DefaultMinSeqLen

\* the number --min_seq_len stands for
MinLength == min_seq_len.value

Candidate(rname, kind, seq) ==
    \E i \in 1..Len(wc_ret.l) :
        /\ SubSeq(wc_ret.l[i], 2, Len(rname) + 1) = rname
        /\ wc_ret.l[i][Len(rname) + 5] = kind
        /\ SubSeq(wc_ret.l[i], Len(rname) + 7, Len(wc_ret.l[i]) - 1) = seq

\* C5 as stated: a flank gives a candidate record and the flag "yes" exactly
\* when its length is >= min_length, otherwise no candidate and the flag "no";
\* the metrics row holds its sequence either way.
C5_AsStated ==
    Extracted =>
        \A rname \in DOMAIN wc_ret.metrics :
            LET row == wc_ret.metrics[rname]
            IN  /\ row.upstream_pass = "yes" <=> Len(row.upstream) >= MinLength
                /\ row.upstream_pass = "no" <=> Len(row.upstream) < MinLength
                /\ row.downstream_pass = "yes" <=> Len(row.downstream) >= MinLength
                /\ row.downstream_pass = "no" <=> Len(row.downstream) < MinLength
                /\ Candidate(rname, "upstream", row.upstream)
                       <=> Len(row.upstream) >= MinLength
                /\ Candidate(rname, "downstream", row.downstream)
                       <=> Len(row.downstream) >= MinLength

\* the entries write_candidate_chimeric_targets_to_file walks before it stops
\* at one whose strand is neither '+' nor '-'
MeetsUnknownStrand ==
    \E e \in 1..Len(all_name2seq_dict) :
        /\ all_name2seq_dict[e].val.strand \notin {"+", "-"}
        /\ \A j \in 1..e :
              \E i \in 0..Len(all_name2seq_dict[j].val.read_sequence) :
                  Occurs(all_name2seq_dict[j].val.read_fragment,
                         all_name2seq_dict[j].val.read_sequence, i)
        /\ \A j \in 1..(e - 1) : all_name2seq_dict[j].val.strand \in {"+", "-"}

\* C7 as stated: on an entry whose strand is neither '+' nor '-' the function
\* raises a fatal error: it does not return, neither candidates nor metrics.
C7_AsStated ==
    (wc_ret.kind # "none" /\ MeetsUnknownStrand) => wc_ret.kind \notin {"int", "tuple"}

\* ------------------------------------------------------------------- main()
BadColumnCount == \E i \in 1..Len(bowtie_align) : Len(bowtie_align[i]) # 8

BadDelimiter ==
    \E i \in 1..Len(bowtie_align) :
        Len(bowtie_align[i]) = 8 /\ ~WellFormedRow(bowtie_align[i])

Inconsistent ==
    \E k \in 1..Len(fa_file) :
        /\ fa_file[k].seq \in DOMAIN seq2name_dict
        /\ name2seq_dict[seq2name_dict[fa_file[k].seq]].read_sequence # fa_file[k].seq

FragmentAbsent ==
    \E d \in Entries :
        \A i \in 0..Len(d.read_sequence) : ~Occurs(d.read_fragment, d.read_sequence, i)

UnknownStrand == \E d \in Entries : d.strand \notin {"+", "-"}

FatalCondition ==
    \/ BadColumnCount
    \/ BadDelimiter
    \/ Inconsistent
    \/ FragmentAbsent
    \/ UnknownStrand
    \/ fatal # "none"

\* C6: when a fatal condition occurs (a row without 8 columns, an identifier
\* without exactly one '#', inconsistent full sequences, a fragment absent from
\* its full sequence, an unrecognized strand) neither the candidate file nor
\* the metrics file is opened or written, before or after.
C6_NoOutputOnFatal ==
    FatalCondition => out_file = Unopened /\ metrics_file = Unwritten

\* the run ended on an unrecognized strand, after the flanks were computed
C6_Witness ==
    /\ pc = "aborted"
    /\ fatal = "unrecognized_strand"
    /\ UnknownStrand
    /\ out_file = Unopened
    /\ metrics_file = Unwritten

\* C10: the candidate records returned are pairwise different, at most one
\* upstream and one downstream record per expanded identifier; the uniqueness
\* assertion of main() never fails and set(lines) drops no record.
C10_UniqueCandidates ==
    /\ \A i, j \in 1..Len(wc_ret.l) : wc_ret.l[i] = wc_ret.l[j] => i = j
    /\ \A rname \in EntryKeys, kind \in {"upstream", "downstream"} :
          Cardinality({i \in 1..Len(wc_ret.l) :
                          /\ SubSeq(wc_ret.l[i], 2, Len(rname) + 1) = rname
                          /\ wc_ret.l[i][Len(rname) + 5] = kind}) <= 1
    /\ Len(wc_ret.l) <= 2 * Len(all_name2seq_dict)
    /\ fatal # "duplicate_lines"
    /\ out_file.opened => Cardinality(out_file.records) = Len(lines)

\* the upstream and the downstream record of each of two reads were written
C10_Witness ==
    /\ out_file.opened
    /\ Len(lines) = 4
    /\ Len(all_name2seq_dict) = 2
    /\ Cardinality(out_file.records) = 4

====
